---- MODULE Spec2Model ----
(***************************************************************************)
(* Journey planning on a railway network (src/app/railway.js, the part    *)
(* that is network.js): network() turns the routes of a RailwayNetwork    *)
(* into a graph of Station objects joined by Link objects, getBestRoute() *)
(* and the recursive doGetBestRoute() enumerate the journeys between two  *)
(* stations, sort them by changes then distance and keep the first        *)
(* maxResults.                                                             *)
(*                                                                         *)
(* Objects are modelled by reference: a Station is referred to by the key *)
(* under which the graph holds it (network() creates one Station per key),*)
(* a Journey by its index in the heap of Journey objects created by the   *)
(* current call.  The recursion of doGetBestRoute is an explicit stack of *)
(* activation frames, one action per statement group of its body.         *)
(***************************************************************************)
EXTENDS Integers, Sequences, FiniteSets, TLC

\* ------------------------------------------------------------------ bounds
MaxStops == 3        \* longest route, in stops
MaxResults == 2      \* largest maxResults passed to getBestRoute
MaxCalls == 2        \* getBestRoute calls made on one graph
MaxRoutes == 3       \* routes of a network handed to the report functions

StationNames == {"A", "B", "C"}
RouteNames == {"Red", "origin"}
\* names asked for that no stop carries; "toString" is a member every object
\* literal inherits from Object.prototype
AbsentNames == {"Nowhere", "toString"}
QueryNames == StationNames \cup AbsentNames

\* ------------------------------------------------------- JavaScript values
\* a distance as read from the data file: a number, null or NaN
Num(n) == [t |-> "number", v |-> n]
Null == [t |-> "null", v |-> 0]
NaN == [t |-> "NaN", v |-> 0]

Undefined == "undefined"

\* an argument as a caller passes it: a string, or a value of another type
\* (the tests pass {}, null and NaN where a string is expected)
Str(s) == [t |-> "string", s |-> s]
EmptyObject == [t |-> "object", s |-> "{}"]
NullValue == [t |-> "object", s |-> "null"]
NaNValue == [t |-> "number", s |-> "NaN"]
NoArgument == [t |-> "undefined", s |-> "undefined"]
\* a number, and a string given character by character
Number(n) == [t |-> "number", n |-> n]
Text(chars) == [t |-> "string", chars |-> chars]
typeof(x) == x.t
\* the members a graph created as {} inherits, and the value each one has
ObjectPrototype == [toString |-> "Object.prototype.toString"]

\* graph[name]: an own key gives its Station, an inherited key the inherited
\* member, anything else undefined
Lookup(g, name) ==
  IF name \in DOMAIN g THEN name
  ELSE IF name \in DOMAIN ObjectPrototype THEN ObjectPrototype[name]
  ELSE Undefined

IsStation(g, ref) == ref \in DOMAIN g

\* the value of a decimal digit
DigitChars == <<"0", "1", "2", "3", "4", "5", "6", "7", "8", "9">>
IsDigit(c) == \E d \in 1..10 : DigitChars[d] = c
DigitOf(c) == (CHOOSE d \in 1..10 : DigitChars[d] = c) - 1

\* the number the longest prefix of digits of chars[i..] spells after acc,
\* NaN when there is no digit at all (any says one has been read)
RECURSIVE ParsePrefix(_, _, _, _)
ParsePrefix(chars, i, acc, any) ==
  IF i <= Len(chars) /\ IsDigit(chars[i])
  THEN ParsePrefix(chars, i + 1, 10 * acc + DigitOf(chars[i]), TRUE)
  ELSE IF any THEN Num(acc) ELSE NaN

\* parseInt(x): an integer is itself, a string is read up to its first
\* character that is not a digit, anything else gives NaN
parseInt(x) ==
  IF "n" \in DOMAIN x THEN Num(x.n)
  ELSE IF "chars" \in DOMAIN x THEN ParsePrefix(x.chars, 1, 0, FALSE)
  ELSE NaN

\* the conversion of x to a number: a string must be digits throughout
ToNumber(x) ==
  IF "n" \in DOMAIN x THEN Num(x.n)
  ELSE IF "chars" \in DOMAIN x /\ x.chars # <<>>
          /\ \A i \in 1..Len(x.chars) : IsDigit(x.chars[i])
  THEN ParsePrefix(x.chars, 1, 0, FALSE)
  ELSE NaN

\* the integer slice() makes of its end argument: NaN becomes 0
ToIntegerOrInfinity(x) == IF ToNumber(x).t = "NaN" THEN 0 ELSE ToNumber(x).v

\* ------------------------------------------------------------- data model
Stop(number, stationName, stationId, distanceToNext, distanceToPrev) ==
  [number |-> number, stationName |-> stationName, stationId |-> stationId,
   distanceToNext |-> distanceToNext, distanceToPrev |-> distanceToPrev]

\* a route as loadData leaves it: no distance yet
UndefinedDistance == [t |-> "undefined", v |-> 0]
Route(name, stops) ==
  [name |-> name, stops |-> stops, distance |-> UndefinedDistance]

Station(stationID, stationName) ==
  [stationName |-> stationName, stationID |-> stationID, links |-> <<>>]

Link(routeName, station, distance) ==
  [routeName |-> routeName, distance |-> distance, station |-> station]

Journey ==
  [stations |-> <<>>, distance |-> 0, text |-> <<>>, success |-> FALSE,
   changes |-> 0]

\* Journey.prototype.copy: a new object with the same field values (slice()
\* gives the clone its own array of the same Station references)
copy(j) ==
  [stations |-> j.stations, distance |-> j.distance, text |-> j.text,
   success |-> j.success, changes |-> j.changes]

\* isNaN(amt): null converts to 0, so only NaN (and undefined) are NaN
isNaN(amt) == amt.t = "NaN"

\* amt > 0 with amt converted to a number
GreaterThanZero(amt) ==
  CASE amt.t = "number" -> amt.v > 0
    [] amt.t = "null" -> FALSE
    [] OTHER -> FALSE

incDistance_NotNaNOnly(j, amt) ==
  IF ~isNaN(amt) THEN [j EXCEPT !.distance = @ + amt.v] ELSE j

incDistance(j, amt) ==
  IF ~isNaN(amt) /\ GreaterThanZero(amt)
  THEN [j EXCEPT !.distance = @ + amt.v]
  ELSE j

\* the narrative is kept line by line
addChange(j, stationName, newRouteName) ==
  [j EXCEPT !.changes = @ + 1,
            !.text = Append(@, <<"At", stationName, "change to", newRouteName>>)]

addFirstStop(j, originName, routeName) ==
  [j EXCEPT !.text = <<(<<"Embark at", originName, "on", routeName>>)>>]

\* ---------------------------------------------------------------- network
\* one step of route.stops.forEach inside network()
AddStop_SwappedDistances(g, route, i) ==
  LET stop == route.stops[i]
      g1 == IF stop.stationName \in DOMAIN g
            THEN g
            ELSE [k \in DOMAIN g \cup {stop.stationName} |->
                    IF k \in DOMAIN g THEN g[k]
                    ELSE Station(stop.number, stop.stationName)]
  IN IF i - 1 >= 1 /\ route.stops[i - 1].stationName \in DOMAIN g1
     THEN LET cur == stop.stationName
              prev == route.stops[i - 1].stationName
              currentToPrev == Link(route.name, prev, route.stops[i - 1].distanceToNext)
              prevToCurrent ==
                Link(route.name, cur, stop.distanceToPrev)
              g2 == [g1 EXCEPT ![cur].links = Append(@, currentToPrev)]
          IN [g2 EXCEPT ![prev].links = Append(@, prevToCurrent)]
     ELSE g1

AddStop_AlwaysNew(g, route, i) ==
  LET stop == route.stops[i]
      g1 == [k \in DOMAIN g \cup {stop.stationName} |->
               IF k # stop.stationName THEN g[k]
               ELSE Station(stop.number, stop.stationName)]
  IN IF i - 1 >= 1 /\ route.stops[i - 1].stationName \in DOMAIN g1
     THEN LET cur == stop.stationName
              prev == route.stops[i - 1].stationName
              currentToPrev == Link(route.name, prev, stop.distanceToPrev)
              prevToCurrent ==
                Link(route.name, cur, route.stops[i - 1].distanceToNext)
              g2 == [g1 EXCEPT ![cur].links = Append(@, currentToPrev)]
          IN [g2 EXCEPT ![prev].links = Append(@, prevToCurrent)]
     ELSE g1

AddStop(g, route, i) ==
  LET stop == route.stops[i]
      g1 == IF stop.stationName \in DOMAIN g
            THEN g
            ELSE [k \in DOMAIN g \cup {stop.stationName} |->
                    IF k \in DOMAIN g THEN g[k]
                    ELSE Station(stop.number, stop.stationName)]
  IN IF i - 1 >= 1 /\ route.stops[i - 1].stationName \in DOMAIN g1
     THEN LET cur == stop.stationName
              prev == route.stops[i - 1].stationName
              currentToPrev == Link(route.name, prev, stop.distanceToPrev)
              prevToCurrent ==
                Link(route.name, cur, route.stops[i - 1].distanceToNext)
              g2 == [g1 EXCEPT ![cur].links = Append(@, currentToPrev)]
          IN [g2 EXCEPT ![prev].links = Append(@, prevToCurrent)]
     ELSE g1

RECURSIVE AddStops(_, _, _)
AddStops(g, route, i) ==
  IF i > Len(route.stops) THEN g
  ELSE AddStops(AddStop(g, route, i), route, i + 1)

RECURSIVE AddRoutes(_, _, _)
AddRoutes(g, routes, r) ==
  IF r > Len(routes) THEN g
  ELSE AddRoutes(AddStops(g, routes[r], 1), routes, r + 1)

EmptyGraph == [k \in {} |-> Station(0, "")]

network(routes) == AddRoutes(EmptyGraph, routes, 1)

\* ---------------------------------------------------------------- reports
\* x + y on numbers as the data file gives them: null counts as 0 and NaN
\* makes the sum NaN
Plus(x, y) ==
  IF x.t = "NaN" \/ y.t = "NaN" THEN NaN ELSE Num(x.v + y.v)

\* distance += stop.distanceToNext over the stops from the i-th on
RECURSIVE AddNext(_, _, _)
AddNext(stops, i, distance) ==
  IF i > Len(stops) THEN distance
  ELSE AddNext(stops, i + 1, Plus(distance, stops[i].distanceToNext))

routeDistance(route) == AddNext(route.stops, 1, Num(0))

\* x < y and x > y on numbers: false as soon as one side is NaN or undefined
Less(x, y) == x.t = "number" /\ y.t = "number" /\ x.v < y.v
Greater(x, y) == Less(y, x)

\* a reference to a Route of data.routes, or null
RouteAt(r) == [t |-> "Route", at |-> r]
NullRoute == [t |-> "null", at |-> 0]

\* the forEach of findLongestRoute from the r-th route on
RECURSIVE Longest(_, _, _, _)
Longest(routes, r, longestRoute, highestDistance) ==
  IF r > Len(routes) THEN longestRoute
  ELSE IF Greater(routeDistance(routes[r]), highestDistance)
       THEN Longest(routes, r + 1, RouteAt(r), routeDistance(routes[r]))
       ELSE Longest(routes, r + 1, longestRoute, highestDistance)

\* findLongestRoute(data): data is "RailwayNetwork" when the argument is
\* one, and routes are then its routes
findLongestRoute(data, routes) ==
  IF data = "RailwayNetwork" THEN Longest(routes, 1, NullRoute, Num(0))
  ELSE NullRoute

addDistances(routes) ==
  [r \in 1..Len(routes) |->
     [routes[r] EXCEPT !.distance = routeDistance(routes[r])]]

\* the comparator of sortRoutesByLength, once the distances are there
lengthComparator_Reversed(r1, r2) ==
  IF Greater(r1.distance, r2.distance) THEN -1
  ELSE IF Greater(r1.distance, r2.distance) THEN 1
  ELSE 0

lengthComparator(r1, r2) ==
  IF Less(r1.distance, r2.distance) THEN -1
  ELSE IF Less(r1.distance, r2.distance) THEN 1
  ELSE 0

\* the function handed to sort(): lengthComparator, or with any asc but
\* true (a, b) => lengthComparator(b, a)
comparefn(asc, a, b) ==
  IF asc = "true" THEN lengthComparator(a, b) ELSE lengthComparator(b, a)

\* Array.prototype.sort of the engine that runs the program (V8), for an
\* array shorter than 64: the run the array begins with is found and, when
\* strictly descending, reversed; every later element is then put in place
\* by binary insertion.  Both look at the sign of comparefn only through
\* "order < 0".
RECURSIVE RunLength(_, _, _, _)
RunLength(arr, asc, isDescending, idx) ==
  IF idx > Len(arr) THEN idx - 1
  ELSE IF isDescending = (comparefn(asc, arr[idx], arr[idx - 1]) < 0)
       THEN RunLength(arr, asc, isDescending, idx + 1)
       ELSE idx - 1

ReverseRange(arr, n) ==
  [k \in 1..Len(arr) |-> IF k <= n THEN arr[n + 1 - k] ELSE arr[k]]

\* the array after CountAndMakeRun, and the length of the run
CountAndMakeRun(arr, asc) ==
  LET isDescending == comparefn(asc, arr[2], arr[1]) < 0
      runLength == RunLength(arr, asc, isDescending, 3)
  IN [arr |-> IF isDescending THEN ReverseRange(arr, runLength) ELSE arr,
      runLength |-> runLength]

\* where pivot belongs in arr[left .. right - 1]
RECURSIVE Place(_, _, _, _, _)
Place(arr, asc, pivot, left, right) ==
  IF left < right
  THEN LET mid == left + ((right - left) \div 2)
       IN IF comparefn(asc, pivot, arr[mid]) < 0
          THEN Place(arr, asc, pivot, left, mid)
          ELSE Place(arr, asc, pivot, mid + 1, right)
  ELSE left

\* arr with its element at start moved to position to, start >= to
MoveTo(arr, start, to) ==
  [k \in 1..Len(arr) |->
     IF k < to \/ k > start THEN arr[k]
     ELSE IF k = to THEN arr[start]
     ELSE arr[k - 1]]

RECURSIVE BinaryInsertionSort(_, _, _)
BinaryInsertionSort(arr, asc, start) ==
  IF start > Len(arr) THEN arr
  ELSE BinaryInsertionSort(
         MoveTo(arr, start, Place(arr, asc, arr[start], 1, start)),
         asc, start + 1)

ArraySort(arr, asc) ==
  IF Len(arr) < 2 THEN arr
  ELSE BinaryInsertionSort(CountAndMakeRun(arr, asc).arr, asc,
                           CountAndMakeRun(arr, asc).runLength + 1)

\* sortRoutesByLength(data, asc): the first comparison finds the distances
\* undefined and calls addDistances, which sets them on every route; an
\* array of fewer than two routes is never compared
sortRoutesByLength(data, routes, asc) ==
  IF data # "RailwayNetwork" \/ Len(routes) < 2 THEN routes
  ELSE ArraySort(
         IF \E r \in 1..Len(routes) : routes[r].distance = UndefinedDistance
         THEN addDistances(routes) ELSE routes,
         asc)

\* getStop(route, name): the last stop of that name, as its place in
\* route.stops, 0 for null
getStop(route, name) ==
  LET places == {i \in 1..Len(route.stops) : route.stops[i].stationName = name}
  IN IF places = {} THEN 0
     ELSE CHOOSE i \in places : \A k \in places : k <= i

\* the forward loop of findRoute, i counting the array index from 0:
\* distance += route.stops[i].distanceToNext while i < last
RECURSIVE SumToNext(_, _, _, _)
SumToNext(stops, i, last, distance) ==
  IF i < last
  THEN SumToNext(stops, i + 1, last, Plus(distance, stops[i + 1].distanceToNext))
  ELSE distance

\* the backward loop: distance += route.stops[i].distanceToPrev while i > last
RECURSIVE SumToPrev_UsesNext(_, _, _, _)
SumToPrev_UsesNext(stops, i, last, distance) ==
  IF i > last
  THEN SumToPrev_UsesNext(stops, i - 1, last,
                          Plus(distance, stops[i + 1].distanceToNext))
  ELSE distance

RECURSIVE SumToPrev(_, _, _, _)
SumToPrev(stops, i, last, distance) ==
  IF i > last
  THEN SumToPrev(stops, i - 1, last, Plus(distance, stops[i + 1].distanceToPrev))
  ELSE distance

\* the two strings findRoute can return, by their parts
NoDirectRoute(from, to) ==
  [t |-> "No direct route found between", name |-> "", from |-> from,
   to |-> to, numStops |-> 0, distance |-> Num(0)]
DirectRoute(name, from, to, numStops, distance) ==
  [t |-> "stops and miles", name |-> name, from |-> from, to |-> to,
   numStops |-> numStops, distance |-> distance]

\* the body of data.routes.forEach in findRoute, for one route
findRouteOn(route, from, to, res) ==
  LET route1 == getStop(route, from)
      route2 == getStop(route, to)
  IN IF route1 # 0 /\ route2 # 0
     THEN LET n1 == route.stops[route1].number
              n2 == route.stops[route2].number
              diff == n2 - n1
          IN IF diff > 0
             THEN DirectRoute(route.name, from, to, n2 - n1,
                              SumToNext(route.stops, n1 - 1, n2 - 1, Num(0)))
             ELSE IF diff < 0
             THEN DirectRoute(route.name, from, to, n1 - n2,
                              SumToPrev(route.stops, n1 - 1, n2 - 1, Num(0)))
             ELSE DirectRoute(route.name, from, to, 0, Num(0))
     ELSE res

RECURSIVE FindRouteFrom(_, _, _, _, _)
FindRouteFrom(routes, r, from, to, res) ==
  IF r > Len(routes) THEN res
  ELSE FindRouteFrom(routes, r + 1, from, to,
                     findRouteOn(routes[r], from, to, res))

findRoute(data, routes, from, to) ==
  IF data = "RailwayNetwork"
  THEN FindRouteFrom(routes, 1, from, to, NoDirectRoute(from, to))
  ELSE NoDirectRoute(from, to)

\* ----------------------------------------------------------------- inputs
\* the station identifier the data file gives each station
StationIdOf == [A |-> 11, B |-> 12, C |-> 13]

DistanceProfiles == {"uniform", "varied"}

\* the distanceToNext / distanceToPrev columns of the data file, for the
\* stop at position i of the r-th route: the same everywhere, or different
\* in the two directions with the second route carrying malformed entries,
\* or mostly malformed (zero, negative, null, NaN)
DistanceToNext(profile, r, i) ==
  IF profile = "uniform" THEN Num(25)
  ELSE IF profile = "malformed"
  THEN (IF r # 1 THEN Num(3)
        ELSE IF i = 1 THEN Num(0)
        ELSE IF i = 2 THEN NaN
        ELSE Num(5))
  ELSE IF r = 1 THEN Num(6 + i)
  ELSE IF i = 1 THEN Num(3)
  ELSE IF i = 2 THEN Num(-2)
  ELSE Null

DistanceToPrev(profile, r, i) ==
  IF profile = "uniform" THEN Num(25)
  ELSE IF profile = "malformed"
  THEN (IF r # 1 THEN Null
        ELSE IF i = 2 THEN Num(-2)
        ELSE IF i = 3 THEN Num(4)
        ELSE Num(-1))
  ELSE IF r = 1 THEN Num(2 * i)
  ELSE IF i = 2 THEN NaN
  ELSE Num(0)

\* loadData gives the first stop no distanceToPrev and the last stop no
\* distanceToNext
Stops(names, profile, r) ==
  [i \in 1..Len(names) |->
     Stop(i, names[i], StationIdOf[names[i]],
          IF i = Len(names) THEN Null ELSE DistanceToNext(profile, r, i),
          IF i = 1 THEN Null ELSE DistanceToPrev(profile, r, i))]

\* the station names along a route: consecutive stops are different stations
StopNames(longest) ==
  {s \in UNION {[1..n -> StationNames] : n \in 1..longest} :
     \A i \in 1..(Len(s) - 1) : s[i] # s[i + 1]}

\* the first route is the main line: it names its stations A, B, C in the
\* order it reaches them (every other network is one of these with its
\* stations renamed)
Rank == [A |-> 1, B |-> 2, C |-> 3]
MainLineStopNames ==
  {s \in StopNames(MaxStops) :
     /\ s[1] = "A"
     /\ \A i \in 2..Len(s) :
          \E k \in 1..(i - 1) : Rank[s[i]] <= Rank[s[k]] + 1}

\* the second route, when there is one, is a branch of one hop at most
BranchStopNames == StopNames(2)

\* the routes arrays getRoutes() can hand to network(): one or two routes,
\* named from names1 and names2, with the distances of one of profiles
NetworksOf(names1, names2, profiles) ==
  {<<Route(n1, Stops(s1, p, 1))>> :
      n1 \in names1, s1 \in MainLineStopNames, p \in profiles}
  \cup
  {<<Route(n1, Stops(s1, p, 1)), Route(n2, Stops(s2, p, 2))>> :
      n1 \in names1, n2 \in names2, s1 \in MainLineStopNames,
      s2 \in BranchStopNames, p \in profiles}

Networks == NetworksOf(RouteNames, RouteNames, DistanceProfiles)

\* the networks of two differently named routes (termination does not
\* depend on names or distances)
TwoLineNetworks == NetworksOf({"Red"}, {"origin"}, {"varied"})

\* ------------------------------------------------------------------ state
VARIABLES
  railway,      \* the routes array read from the data file
  fileName,     \* the argument network() was called with
  graph,        \* the graph object of network(): station name -> Station
  pc,           \* "start" (no graph yet), "idle" (network() returned the
                \* graph), "searching", "done" (getBestRoute returned),
                \* "threw"; in main() also "built", "displayed", "exited"
  origin,       \* arguments of the getBestRoute call
  destination,
  maxResults,
  destinationStation, \* graph[destination] as resolved by getBestRoute
  heap,         \* the Journey objects created by the call, by reference
  possibleRoutes, \* the routesFound array: references into heap
  stack,        \* activation frames of doGetBestRoute, innermost last
  result,       \* the array getBestRoute returned: references into heap
  error,        \* the exception that left getBestRoute, "none" if none
  calls,        \* how many calls have been made on this graph
  previous,     \* what the call before this one returned (values)
  mainArgs,     \* the arguments main() was called with
  log,          \* what console.log has printed, oldest first
  exited,       \* process.exit() has been called
  report,       \* what the last report function returned
  taken         \* for each Journey of heap, the links it was extended over
                \* (a record the program does not keep)

vars ==
  <<railway, fileName, graph, pc, origin, destination, maxResults,
    destinationStation, heap, possibleRoutes, stack, result, error, calls,
    previous, mainArgs, log, exited, report, taken>>

\* what getBestRoute and doGetBestRoute have no reference to
outside == <<fileName, mainArgs, log, exited, report>>

\* an activation of doGetBestRoute(graph, origin, destination, journey,
\* routesFound, routeName): at is the statement it is about to execute and
\* i the index origin.links.forEach has reached
Frame(originStation, journey, routeName) ==
  [origin |-> originStation, journey |-> journey, routeName |-> routeName,
   at |-> "enter", i |-> 1]

Top == stack[Len(stack)]
Pop == SubSeq(stack, 1, Len(stack) - 1)
SetTop(f) == [stack EXCEPT ![Len(stack)] = f]

\* the Journey values of an array of references
Deref(refs) == [k \in 1..Len(refs) |-> heap[refs[k]]]

\* what a finished call handed back, for comparing two calls
NoOutcome == [returned |-> FALSE, journeys |-> <<>>, error |-> "none"]
Outcome == [returned |-> pc = "done", journeys |-> Deref(result),
            error |-> error]

\* --------------------------------------------------------------- ordering
\* the comparator getBestRoute sorts with
sortJourney_DistanceFirst(journeyA, journeyB) ==
  IF journeyA.distance > journeyB.distance THEN 1
  ELSE IF journeyA.distance < journeyB.distance THEN -1
  ELSE IF journeyA.changes > journeyB.changes THEN 1
  ELSE IF journeyA.changes < journeyB.changes THEN -1
  ELSE 0

sortJourney(journeyA, journeyB) ==
  IF journeyA.changes > journeyB.changes THEN 1
  ELSE IF journeyA.changes < journeyB.changes THEN -1
  ELSE IF journeyA.distance > journeyB.distance THEN 1
  ELSE IF journeyA.distance < journeyB.distance THEN -1
  ELSE 0

\* Array.prototype.sort is stable: an element goes after every element that
\* does not compare greater than it
RECURSIVE Insert(_, _, _)
Insert(h, sorted, x) ==
  IF sorted = <<>> THEN <<x>>
  ELSE IF sortJourney(h[sorted[Len(sorted)]], h[x]) <= 0
       THEN Append(sorted, x)
       ELSE Append(Insert(h, SubSeq(sorted, 1, Len(sorted) - 1), x),
                   sorted[Len(sorted)])

RECURSIVE SortFrom(_, _, _, _)
SortFrom(h, refs, k, sorted) ==
  IF k > Len(refs) THEN sorted
  ELSE SortFrom(h, refs, k + 1, Insert(h, sorted, refs[k]))

sort(h, refs) == SortFrom(h, refs, 1, <<>>)

\* refs.slice(0, n)
slice_OneLess(refs, n) ==
  SubSeq(refs, 1, IF n - 1 < Len(refs) THEN n - 1 ELSE Len(refs))

slice(refs, n) == SubSeq(refs, 1, IF n < Len(refs) THEN n ELSE Len(refs))

\* ------------------------------------------------------------------- Init
\* main() has not been called
NoArguments ==
  [data |-> NoArgument, origin |-> NoArgument, destination |-> NoArgument,
   maxResults |-> NoArgument]

\* no report function has been called
NoReport ==
  [of |-> "none", data |-> "none", asc |-> "undefined", before |-> <<>>,
   res |-> NullRoute]

\* nothing exists before network() is called: railway is what the data file
\* on disk holds
InitOn(networks) ==
  /\ railway \in networks
  /\ fileName = NoArgument
  /\ graph = EmptyGraph
  /\ pc = "start"
  /\ mainArgs = NoArguments
  /\ log = <<>>
  /\ exited = FALSE
  /\ report = NoReport
  /\ taken = <<>>
  /\ origin = Undefined
  /\ destination = Undefined
  /\ maxResults = 0
  /\ destinationStation = Undefined
  /\ heap = <<>>
  /\ possibleRoutes = <<>>
  /\ stack = <<>>
  /\ result = <<>>
  /\ error = "none"
  /\ calls = 0
  /\ previous = NoOutcome

Init == InitOn(Networks)

\* ---------------------------------------------------------------- network()
\* the data file, and a name no file has
DataFile == "railway.json"
FileNames == {DataFile, "missing.json"}

\* readData(fileName): null unless fileName is a string, the RailwayNetwork
\* of the file, or the error of readFileSync when there is no such file
readData(f) ==
  IF typeof(f) # "string" THEN "null"
  ELSE IF f.s = DataFile THEN "RailwayNetwork"
  ELSE "ENOENT"

\* network(f) with the type test taken out; then is where the caller stands
\* once the graph is returned
networkCall_NoTypeTest(f, then) ==
  /\ fileName' = f
  /\ IF readData(f) = "ENOENT"
     THEN pc' = "threw" /\ error' = "ENOENT" /\ graph' = graph
     ELSE IF readData(f) = "null"
     THEN pc' = "returnedNull" /\ error' = error /\ graph' = graph
     ELSE pc' = then /\ error' = error /\ graph' = network(railway)

\* network(f): const graph = {}, the type test, readData, the two forEach
\* loops, return graph
networkCall(f, then) ==
  /\ fileName' = f
  /\ IF typeof(f) # "string"
     THEN pc' = "threw" /\ error' = "TypeError" /\ graph' = graph
     ELSE IF readData(f) = "ENOENT"
     THEN pc' = "threw" /\ error' = "ENOENT" /\ graph' = graph
     ELSE IF readData(f) = "null"
     THEN pc' = "returnedNull" /\ error' = error /\ graph' = graph
     ELSE pc' = then /\ error' = error /\ graph' = network(railway)

\* what the tests pass to network()
NetworkArguments == {Str(f) : f \in FileNames} \cup {EmptyObject, NullValue}

\* a caller of the module builds the graph
BuildGraph ==
  /\ pc = "start"
  /\ \E f \in NetworkArguments : networkCall(f, "idle")
  /\ UNCHANGED <<taken, railway, origin, destination, maxResults,
                 destinationStation, heap, possibleRoutes, stack, result,
                 calls, previous, mainArgs, log, exited, report>>

\* ----------------------------------------------------------- getBestRoute
\* getBestRoute up to its call of doGetBestRoute
Enter_SharedRoutes(o, d, n) ==
  /\ origin' = o
  /\ destination' = d
  /\ maxResults' = n
  /\ calls' = calls + 1
  /\ result' = <<>>
  /\ IF Lookup(graph, o) = Undefined \/ Lookup(graph, d) = Undefined
     THEN /\ pc' = "threw"
          /\ error' = "TypeError"
          /\ destinationStation' = Undefined
          /\ heap' = <<>>
          /\ possibleRoutes' = <<>>
          /\ stack' = <<>>
          /\ taken' = <<>>
     ELSE /\ pc' = "searching"
          /\ error' = "none"
          /\ destinationStation' = Lookup(graph, d)
          /\ heap' = Append(heap, Journey)
          /\ taken' = Append(taken, <<>>)
          /\ possibleRoutes' = possibleRoutes
          /\ stack' = <<Frame(Lookup(graph, o), Len(heap) + 1, "origin")>>
  /\ UNCHANGED <<outside, railway, graph>>

Enter(o, d, n) ==
  /\ origin' = o
  /\ destination' = d
  /\ maxResults' = n
  /\ calls' = calls + 1
  /\ result' = <<>>
  /\ IF Lookup(graph, o) = Undefined \/ Lookup(graph, d) = Undefined
     THEN /\ pc' = "threw"
          /\ error' = "TypeError"
          /\ destinationStation' = Undefined
          /\ heap' = <<>>
          /\ possibleRoutes' = <<>>
          /\ stack' = <<>>
          /\ taken' = <<>>
     ELSE /\ pc' = "searching"
          /\ error' = "none"
          /\ destinationStation' = Lookup(graph, d)
          /\ heap' = <<Journey>>
          /\ taken' = <<(<<>>)>>
          /\ possibleRoutes' = <<>>
          /\ stack' = <<Frame(Lookup(graph, o), 1, "origin")>>
  /\ UNCHANGED <<outside, railway, graph>>

\* the first call on a graph
Call ==
  /\ pc = "idle"
  /\ \E o \in QueryNames, d \in QueryNames, n \in 1..MaxResults :
       Enter(o, d, n)
  /\ previous' = NoOutcome

\* the same call made again once the one before is over
CallAgain ==
  /\ pc \in {"done", "threw"}
  /\ calls > 0
  /\ calls < MaxCalls
  /\ previous' = Outcome
  /\ Enter(origin, destination, maxResults)

\* getBestRoute after doGetBestRoute has returned: sort in place, slice
Return ==
  /\ pc = "searching"
  /\ stack = <<>>
  /\ possibleRoutes' = sort(heap, possibleRoutes)
  /\ result' = slice(possibleRoutes', maxResults)
  /\ pc' = "done"
  /\ UNCHANGED <<taken, outside, railway, graph, origin, destination, maxResults,
                 destinationStation, heap, stack, error, calls, previous>>

\* --------------------------------------------------------- doGetBestRoute
Searching == pc = "searching" /\ stack # <<>>

\* origin === destination, for the activation f
atDestination_Assignment(f) == TRUE
atDestination_NotAtStart(f) ==
  f.origin = destinationStation /\ f.routeName # "origin"
atDestination(f) == f.origin = destinationStation

\* journey.stations.push(origin), then the test of the base case; an origin
\* that is not a Station has no links, and forEach of undefined throws
PushStation ==
  /\ Searching
  /\ Top.at = "enter"
  /\ heap' = [heap EXCEPT ![Top.journey].stations = Append(@, Top.origin)]
  /\ IF atDestination(Top)
     THEN /\ stack' = SetTop([Top EXCEPT !.at = "found"])
          /\ UNCHANGED <<pc, error>>
     ELSE IF IsStation(graph, Top.origin)
     THEN /\ stack' = SetTop([Top EXCEPT !.at = "links"])
          /\ UNCHANGED <<pc, error>>
     ELSE /\ stack' = <<>>
          /\ pc' = "threw"
          /\ error' = "TypeError"
  /\ UNCHANGED <<taken, outside, railway, graph, origin, destination, maxResults,
                 destinationStation, possibleRoutes, result, calls, previous>>

\* base case, routesFound.push(journey)
FoundPush ==
  /\ Searching
  /\ Top.at = "found"
  /\ possibleRoutes' = Append(possibleRoutes, Top.journey)
  /\ stack' = SetTop([Top EXCEPT !.at = "success"])
  /\ UNCHANGED <<taken, outside, railway, graph, pc, origin, destination, maxResults,
                 destinationStation, heap, result, error, calls, previous>>

\* the base case without the assignment to success
FoundSuccess_NotSet ==
  /\ Searching
  /\ Top.at = "success"
  /\ stack' = SetTop([Top EXCEPT !.at = "arrive"])
  /\ UNCHANGED <<taken, outside, railway, graph, pc, origin, destination, maxResults,
                 destinationStation, heap, possibleRoutes, result, error, calls,
                 previous>>

\* base case, journey.success = true
FoundSuccess ==
  /\ Searching
  /\ Top.at = "success"
  /\ heap' = [heap EXCEPT ![Top.journey].success = TRUE]
  /\ stack' = SetTop([Top EXCEPT !.at = "arrive"])
  /\ UNCHANGED <<taken, outside, railway, graph, pc, origin, destination, maxResults,
                 destinationStation, possibleRoutes, result, error, calls,
                 previous>>

\* destination.stationName, undefined when destination is not a Station
StationNameOf(ref) ==
  IF IsStation(graph, ref) THEN graph[ref].stationName ELSE Undefined

\* the base case without its return: the activation goes on to its links
FoundArrive_NoReturn ==
  /\ Searching
  /\ Top.at = "arrive"
  /\ heap' = [heap EXCEPT ![Top.journey].text =
                Append(@, <<"Arrive at", StationNameOf(destinationStation)>>)]
  /\ IF IsStation(graph, Top.origin)
     THEN /\ stack' = SetTop([Top EXCEPT !.at = "links"])
          /\ UNCHANGED <<pc, error>>
     ELSE /\ stack' = <<>>
          /\ pc' = "threw"
          /\ error' = "TypeError"
  /\ UNCHANGED <<taken, outside, railway, graph, origin, destination, maxResults,
                 destinationStation, possibleRoutes, result, calls, previous>>

\* base case, journey.text += `Arrive at ...`, and the activation returns
FoundArrive ==
  /\ Searching
  /\ Top.at = "arrive"
  /\ heap' = [heap EXCEPT ![Top.journey].text =
                Append(@, <<"Arrive at", StationNameOf(destinationStation)>>)]
  /\ stack' = Pop
  /\ UNCHANGED <<taken, outside, railway, graph, pc, origin, destination, maxResults,
                 destinationStation, possibleRoutes, result, error, calls,
                 previous>>

\* journey.stations.includes(station)
includes_LastOnly(stations, station) ==
  stations # <<>> /\ stations[Len(stations)] = station

includes_AnyJourney(stations, station) ==
  \E j \in 1..Len(heap) : \E k \in 1..Len(heap[j].stations) :
    heap[j].stations[k] = station

includes(stations, station) == \E k \in 1..Len(stations) : stations[k] = station

\* the Journey the loop body hands to the recursive call for this link
newJourney(journey, originStation, routeName, link) ==
  incDistance(
    IF routeName = "origin"
    THEN addFirstStop(copy(journey), originStation.stationName, link.routeName)
    ELSE IF link.routeName # routeName
    THEN addChange(copy(journey), originStation.stationName, link.routeName)
    ELSE copy(journey),
    link.distance)

\* loop body for a link whose station the journey has not visited: build
\* newJourney and call doGetBestRoute on it
\* the same, extending the journey of the activation itself instead of a
\* copy of it
FollowLink_NoCopy ==
  /\ Searching
  /\ Top.at = "links"
  /\ Top.i <= Len(graph[Top.origin].links)
  /\ LET link == graph[Top.origin].links[Top.i]
     IN /\ ~includes(heap[Top.journey].stations, link.station)
        /\ heap' = [heap EXCEPT ![Top.journey] =
                      newJourney(@, graph[Top.origin], Top.routeName, link)]
        /\ stack' = Append(SetTop([Top EXCEPT !.i = @ + 1]),
                           Frame(link.station, Top.journey, link.routeName))
        /\ taken' = [taken EXCEPT ![Top.journey] =
                       Append(@, [from |-> Top.origin, link |-> link])]
  /\ UNCHANGED <<outside, railway, graph, pc, origin, destination, maxResults,
                 destinationStation, possibleRoutes, result, error, calls,
                 previous>>

FollowLink ==
  /\ Searching
  /\ Top.at = "links"
  /\ Top.i <= Len(graph[Top.origin].links)
  /\ LET link == graph[Top.origin].links[Top.i]
     IN /\ ~includes(heap[Top.journey].stations, link.station)
        /\ heap' = Append(heap, newJourney(heap[Top.journey], graph[Top.origin],
                                           Top.routeName, link))
        /\ stack' = Append(SetTop([Top EXCEPT !.i = @ + 1]),
                           Frame(link.station, Len(heap) + 1, link.routeName))
        /\ taken' = Append(taken, Append(taken[Top.journey],
                                         [from |-> Top.origin, link |-> link]))
  /\ UNCHANGED <<outside, railway, graph, pc, origin, destination, maxResults,
                 destinationStation, possibleRoutes, result, error, calls,
                 previous>>

\* loop body for a link whose station is already in the journey
SkipLink_NoAdvance ==
  /\ Searching
  /\ Top.at = "links"
  /\ Top.i <= Len(graph[Top.origin].links)
  /\ includes(heap[Top.journey].stations,
              graph[Top.origin].links[Top.i].station)
  /\ UNCHANGED vars

\* the same, with the link taken out of the station's list instead
SkipLink_PrunesLink ==
  /\ Searching
  /\ Top.at = "links"
  /\ Top.i <= Len(graph[Top.origin].links)
  /\ includes(heap[Top.journey].stations,
              graph[Top.origin].links[Top.i].station)
  /\ graph' = [graph EXCEPT ![Top.origin].links =
                 SubSeq(@, 1, Top.i - 1) \o SubSeq(@, Top.i + 1, Len(@))]
  /\ UNCHANGED <<taken, outside, railway, pc, origin, destination, maxResults,
                 destinationStation, heap, possibleRoutes, stack, result,
                 error, calls, previous>>

SkipLink ==
  /\ Searching
  /\ Top.at = "links"
  /\ Top.i <= Len(graph[Top.origin].links)
  /\ includes(heap[Top.journey].stations,
              graph[Top.origin].links[Top.i].station)
  /\ stack' = SetTop([Top EXCEPT !.i = @ + 1])
  /\ UNCHANGED <<taken, outside, railway, graph, pc, origin, destination, maxResults,
                 destinationStation, heap, possibleRoutes, result, error,
                 calls, previous>>

\* forEach is over: the activation returns
LinksDone ==
  /\ Searching
  /\ Top.at = "links"
  /\ Top.i > Len(graph[Top.origin].links)
  /\ stack' = Pop
  /\ UNCHANGED <<taken, outside, railway, graph, pc, origin, destination, maxResults,
                 destinationStation, heap, possibleRoutes, result, error,
                 calls, previous>>

Search ==
  \/ PushStation
  \/ FoundPush
  \/ FoundSuccess
  \/ FoundArrive
  \/ FollowLink
  \/ SkipLink
  \/ LinksDone
  \/ Return

Next ==
  \/ BuildGraph
  \/ Call
  \/ CallAgain
  \/ Search

Spec == Init /\ [][Next]_vars

\* network() alone, on every data file
BuildSpec == Init /\ [][BuildGraph]_vars

\* the same calls on data files whose distance columns hold zero, negative,
\* null and NaN entries beside positive ones
MalformedNetworks == NetworksOf({"Red"}, {"origin"}, {"malformed"})
DistanceSpec == InitOn(MalformedNetworks) /\ [][Next]_vars


\* LiveSpec: the call runs to completion once made (synchronous code)
LiveInit == InitOn(TwoLineNetworks)
LiveSpec == LiveInit /\ [][Next]_vars /\ WF_vars(Search)

\* ------------------------------------------------------------------ main()
\* what main() is called with: the tests pass {} for data, null for origin,
\* NaN for destination and 'seven' for maxResults
MainData == {Str(f) : f \in FileNames} \cup {EmptyObject}
MainStations == {Str(q) : q \in QueryNames} \cup {NullValue, NaNValue}
MainMaxResults ==
  {Number(n) : n \in 1..MaxResults}
  \cup {Text(<<"s", "e", "v", "e", "n">>), Text(<<"2", "n", "d">>), NaNValue}

\* a line of console output: what is printed, and the number in it
Line(line, n) == [line |-> line, n |-> n]
UsageMessage ==
  "Error! Usage: node network.js <data set> <origin> <destination> <max results>"

\* displayRoutes(journiesFound), for an array
displayRoutes(journiesFound) ==
  (IF Len(journiesFound) = 0
   THEN <<Line("One or more station cannot be found on this network", 0)>>
   ELSE <<>>)
  \o <<Line("Routes found", Len(journiesFound))>>
  \o [i \in 1..Len(journiesFound) |-> Line("report", i)]

\* main(data, o, d, m) up to the return of network(data): the four tests
\* on the arguments, then the graph
MainCall ==
  /\ pc = "start"
  /\ \E data \in MainData, o \in MainStations, d \in MainStations,
        m \in MainMaxResults :
       /\ mainArgs' = [data |-> data, origin |-> o, destination |-> d,
                       maxResults |-> m]
       /\ IF \/ isNaN(parseInt(m))
             \/ typeof(o) # "string"
             \/ typeof(d) # "string"
             \/ typeof(data) # "string"
          THEN /\ pc' = "threw"
               /\ error' = "TypeError"
               /\ UNCHANGED <<fileName, graph>>
          ELSE networkCall(data, "built")
  /\ UNCHANGED <<taken, railway, origin, destination, maxResults,
                 destinationStation, heap, possibleRoutes, stack, result,
                 calls, previous, log, exited, report>>

\* main() calls getBestRoute(daNetwork, origin, destination, maxResults);
\* maxResults reaches slice() as it was passed
MainSearch ==
  /\ pc = "built"
  /\ Enter(mainArgs.origin.s, mainArgs.destination.s,
           ToIntegerOrInfinity(mainArgs.maxResults))
  /\ previous' = NoOutcome

\* main() calls displayRoutes(bestRoutes) and returns
MainDisplay ==
  /\ pc = "done"
  /\ log' = log \o displayRoutes(result)
  /\ pc' = "displayed"
  /\ UNCHANGED <<taken, railway, fileName, graph, origin, destination, maxResults,
                 destinationStation, heap, possibleRoutes, stack, result,
                 error, calls, previous, mainArgs, exited, report>>

\* the catch block of main(): the error, the usage message, process.exit()
MainCatch ==
  /\ pc = "threw"
  /\ log' = log \o <<Line(error, 0), Line(UsageMessage, 0)>>
  /\ exited' = TRUE
  /\ pc' = "exited"
  /\ UNCHANGED <<taken, railway, fileName, graph, origin, destination, maxResults,
                 destinationStation, heap, possibleRoutes, stack, result,
                 error, calls, previous, mainArgs, report>>

MainNext ==
  \/ MainCall
  \/ MainSearch
  \/ Search
  \/ MainDisplay
  \/ MainCatch

MainInit == InitOn(TwoLineNetworks)

MainSpec == MainInit /\ [][MainNext]_vars

\* --------------------------------------------------- the report functions
\* the names the data file gives its routes, in file order
LineNames == <<"Red", "origin", "Blue", "Green", "Gold", "Grey">>

\* a route of the report networks stops at A, B, C, A, ... in this order
Along == [i \in 1..(MaxStops + 1) |-> <<"A", "B", "C">>[((i - 1) % 3) + 1]]
ReportStopNames == {SubSeq(Along, 1, n) : n \in 1..MaxStops}

\* the routes arrays the report functions are given: none to MaxRoutes
\* routes, the r-th one named LineNames[r]
ReportNetworks ==
  UNION {
    {routes \in [1..n -> {Route(LineNames[r], Stops(s, p, r)) :
                            r \in 1..n, s \in ReportStopNames,
                            p \in DistanceProfiles}] :
       \A r \in 1..n : routes[r].name = LineNames[r]} :
    n \in 0..MaxRoutes}

\* what a report function is given as data: the network, or (as in the
\* tests) the string 'no'
DataArguments == {"RailwayNetwork", "no"}
\* asc: true, false, or left out
AscArguments == {"true", "false", "undefined"}

ReportInit == InitOn(ReportNetworks)

FindLongestRoute ==
  /\ \E data \in DataArguments :
       report' = [of |-> "findLongestRoute", data |-> data,
                  asc |-> "undefined", before |-> railway,
                  res |-> findLongestRoute(data, railway)]
  /\ UNCHANGED <<taken, railway, fileName, graph, pc, origin, destination,
                 maxResults, destinationStation, heap, possibleRoutes, stack,
                 result, error, calls, previous, mainArgs, log, exited>>

SortRoutesByLength ==
  /\ \E data \in DataArguments, asc \in AscArguments :
       /\ railway' = sortRoutesByLength(data, railway, asc)
       /\ report' = [of |-> "sortRoutesByLength", data |-> data,
                     asc |-> asc, before |-> railway, res |-> NullRoute]
  /\ UNCHANGED <<taken, fileName, graph, pc, origin, destination, maxResults,
                 destinationStation, heap, possibleRoutes, stack, result,
                 error, calls, previous, mainArgs, log, exited>>

\* the station names findRoute is asked about
StopArguments == StationNames \cup {"Nowhere"}

FindRoute ==
  /\ \E data \in DataArguments, from \in StopArguments, to \in StopArguments :
       report' = [of |-> "findRoute", data |-> data, asc |-> "undefined",
                  before |-> railway,
                  res |-> findRoute(data, railway, from, to)]
  /\ UNCHANGED <<taken, railway, fileName, graph, pc, origin, destination,
                 maxResults, destinationStation, heap, possibleRoutes, stack,
                 result, error, calls, previous, mainArgs, log, exited>>

ReportNext ==
  \/ FindLongestRoute
  \/ SortRoutesByLength

ReportSpec == ReportInit /\ [][ReportNext]_vars

\* findRoute alone, on every data file
FindRouteSpec == ReportInit /\ [][FindRoute]_vars

\* ------------------------------------------------------------- properties
Exists(name) == name \in DOMAIN graph
BothExist == Exists(origin) /\ Exists(destination)
Returned == pc = "done"

\* no station twice
NoRepeat(stations) ==
  \A a \in 1..Len(stations), b \in 1..Len(stations) :
    stations[a] = stations[b] => a = b

\* some link of station x leads to station y
Linked(x, y) ==
  \E k \in 1..Len(graph[x].links) : graph[x].links[k].station = y

\* the graph has a cycle through three stations
HasCycle ==
  \E x \in DOMAIN graph, y \in DOMAIN graph, z \in DOMAIN graph :
    /\ x # y /\ y # z /\ x # z
    /\ Linked(x, y) /\ Linked(y, z) /\ Linked(z, x)

\* C1: a call with the same existing station as origin and destination
\* returns exactly one journey, of distance 0, with 0 changes, successful,
\* through that station alone, and takes no link: it creates no journey
\* but the first and never has more than one activation.
C1_SameStation ==
  (calls > 0 /\ origin = destination /\ Exists(origin)) =>
    /\ Len(heap) <= 1
    /\ Len(stack) <= 1
    /\ pc # "threw"
    /\ Returned =>
         /\ Len(result) = 1
         /\ heap[result[1]].stations = <<origin>>
         /\ heap[result[1]].distance = 0
         /\ heap[result[1]].changes = 0
         /\ heap[result[1]].success

C1_Witness ==
  /\ Returned
  /\ origin = destination
  /\ Exists(origin)
  /\ graph[origin].links # <<>>
  /\ Len(result) = 1

\* C2: a search between two existing stations comes to its end, and
\* getBestRoute returns, whatever the graph (cycles included).
C2_Terminates == (pc = "searching" /\ BothExist) ~> Returned

C2_Witness == Returned /\ BothExist /\ HasCycle /\ origin # destination

\* C3: no journey, in progress or completed, has a station twice, so none
\* has more stations than the graph.
C3_NoStationTwice ==
  \A j \in 1..Len(heap) :
    /\ NoRepeat(heap[j].stations)
    /\ Len(heap[j].stations) <= Cardinality(DOMAIN graph)

C3_Witness ==
  /\ HasCycle
  /\ \E j \in 1..Len(heap) : Len(heap[j].stations) = Cardinality(DOMAIN graph)
  /\ Cardinality(DOMAIN graph) = 3

\* C4: in the returned list an earlier journey has fewer changes than a
\* later one, or as many changes and no more distance.
C4_Ordered ==
  Returned =>
    \A a \in 1..Len(result), b \in 1..Len(result) :
      a < b =>
        \/ heap[result[a]].changes < heap[result[b]].changes
        \/ /\ heap[result[a]].changes = heap[result[b]].changes
           /\ heap[result[a]].distance <= heap[result[b]].distance

\* fewer changes first although the distance is larger
C4_Witness ==
  /\ Returned
  /\ Len(result) = 2
  /\ heap[result[1]].changes < heap[result[2]].changes
  /\ heap[result[1]].distance > heap[result[2]].distance

\* the station sequences that are simple paths of the graph from a to b
SimplePaths(a, b) ==
  {q \in UNION {[1..n -> DOMAIN graph] : n \in 1..Cardinality(DOMAIN graph)} :
     /\ q[1] = a
     /\ q[Len(q)] = b
     /\ NoRepeat(q)
     /\ \A i \in 1..(Len(q) - 1) : Linked(q[i], q[i + 1])}

\* how many links station x has to station y
LinksBetween(x, y) ==
  Cardinality({k \in 1..Len(graph[x].links) : graph[x].links[k].station = y})

\* how many link sequences run along the station sequence q
RECURSIVE Ways(_, _)
Ways(q, i) ==
  IF i >= Len(q) THEN 1 ELSE LinksBetween(q[i], q[i + 1]) * Ways(q, i + 1)

RECURSIVE SumWays(_)
SumWays(paths) ==
  IF paths = {} THEN 0
  ELSE LET q == CHOOSE x \in paths : TRUE
       IN Ways(q, 1) + SumWays(paths \ {q})

\* the simple paths counted link by link
LinkPaths(a, b) == SumWays(SimplePaths(a, b))

Min(a, b) == IF a < b THEN a ELSE b

\* C5 as stated: between existing stations the call returns min(maxResults,
\* P) journeys, P being the number of station sequences that are simple
\* paths from origin to destination.
C5_CountByStationSequence ==
  (Returned /\ BothExist) =>
    Len(result) =
      Min(maxResults, Cardinality(SimplePaths(origin, destination)))

\* C5 amended: between existing stations the call returns min(maxResults,
\* P) journeys, P being the number of simple paths counted link by link
\* (two links between the same two stations make two paths); never more
\* than maxResults.
C5_CountByLinkSequence ==
  (Returned /\ BothExist) =>
    /\ Len(result) = Min(maxResults, LinkPaths(origin, destination))
    /\ Len(result) <= maxResults

C5_Witness ==
  /\ Returned
  /\ BothExist
  /\ Cardinality(SimplePaths(origin, destination)) < maxResults
  /\ LinkPaths(origin, destination) > maxResults
  /\ Len(result) = maxResults

\* C6: when origin or destination is not a station of the graph the call
\* throws a TypeError before any search step, and returns no list.
C6_UnknownStationThrows ==
  (calls > 0 /\ ~BothExist) =>
    /\ pc = "threw"
    /\ error = "TypeError"
    /\ heap = <<>>

\* C7: between existing stations that no path joins the call returns an
\* empty list and no error, and an empty list is returned in that case
\* only, never for an unknown station name.
C7_EmptyOnlyWhenNoPath ==
  /\ (pc \in {"done", "threw"} /\ BothExist
        /\ SimplePaths(origin, destination) = {}) =>
       (Returned /\ result = <<>> /\ error = "none")
  /\ (Returned /\ result = <<>>) =>
       (BothExist /\ SimplePaths(origin, destination) = {})

\* C8: the same call made again on the unchanged graph ends as the call
\* before did: the same journeys (stations, distance, changes, narrative,
\* success) in the same order.
C8_SameCallSameResult ==
  (pc \in {"done", "threw"} /\ calls >= 2) => Outcome = previous

\* a second call whose two journeys tie on changes and distance
C8_Witness ==
  /\ Returned
  /\ calls >= 2
  /\ Len(result) = 2
  /\ sortJourney(heap[result[1]], heap[result[2]]) = 0
  /\ heap[result[1]] # heap[result[2]]

\* C9: between existing stations every simple path of the graph is the
\* station sequence of a journey found, and of a journey returned when
\* maxResults is at least the number of journeys found.
C9_Exhaustive ==
  (Returned /\ BothExist) =>
    \A q \in SimplePaths(origin, destination) :
      /\ \E k \in 1..Len(possibleRoutes) : heap[possibleRoutes[k]].stations = q
      /\ maxResults >= Len(possibleRoutes) =>
           \E k \in 1..Len(result) : heap[result[k]].stations = q

C9_Witness ==
  /\ Returned
  /\ BothExist
  /\ Cardinality(SimplePaths(origin, destination)) >= 2
  /\ maxResults >= Len(possibleRoutes)
  /\ HasCycle

Miles(link) == IF GreaterThanZero(link.distance) THEN link.distance.v ELSE 0

\* <<changes, distance>> of every way to go from station x to the
\* destination over links to stations not in visited, where a change is a
\* link of another route than the link before it (aboard says there is a
\* link before it)
RECURSIVE Costs(_, _, _, _)
Costs(x, visited, aboard, lastRoute) ==
  IF x = destination THEN {<<0, 0>>}
  ELSE UNION
    {LET link == graph[x].links[k]
         change == IF aboard /\ link.routeName # lastRoute THEN 1 ELSE 0
     IN {<<c[1] + change, c[2] + Miles(link)>> :
           c \in Costs(link.station, visited \cup {link.station}, TRUE,
                       link.routeName)} :
     k \in {k \in 1..Len(graph[x].links) :
              graph[x].links[k].station \notin visited}}

\* fewest changes, then fewest miles
Best(costs) ==
  CHOOSE c \in costs :
    \A d \in costs : c[1] < d[1] \/ (c[1] = d[1] /\ c[2] <= d[2])

\* C11: on a network of two routes that form a cycle, the first journey
\* returned has the fewest changes of all the simple paths from origin to
\* destination and, among those, the smallest distance.
C11_FewestChangesFirst ==
  (Returned /\ BothExist /\ Len(railway) = 2 /\ HasCycle /\ result # <<>>)
    => <<heap[result[1]].changes, heap[result[1]].distance>>
         = Best(Costs(origin, {origin}, FALSE, "none"))

\* the stops of the only route have k >= 2 different stations, and the call
\* goes from the first of them to the last
EndToEnd ==
  /\ Len(railway) = 1
  /\ Len(railway[1].stops) >= 2
  /\ \A a \in 1..Len(railway[1].stops), b \in 1..Len(railway[1].stops) :
       railway[1].stops[a].stationName = railway[1].stops[b].stationName
         => a = b
  /\ origin = railway[1].stops[1].stationName
  /\ destination = railway[1].stops[Len(railway[1].stops)].stationName

\* C12: on a network of a single route of k different stations, the call
\* from the first stop to the last returns exactly one journey: its stations
\* are the k stations in route order, its distance is the sum of the
\* distanceToNext of the stops, its changes are 0, its narrative begins with
\* "Embark at <first> on <route>" and ends with "Arrive at <last>".
C12_SingleRouteEndToEnd ==
  (Returned /\ EndToEnd) =>
    /\ Len(result) = 1
    /\ LET j == heap[result[1]]
           stops == railway[1].stops
       IN /\ j.stations = [i \in 1..Len(stops) |-> stops[i].stationName]
          /\ Num(j.distance) = routeDistance(railway[1])
          /\ j.changes = 0
          /\ j.text # <<>>
          /\ j.text[1] = <<"Embark at", origin, "on", railway[1].name>>
          /\ j.text[Len(j.text)] = <<"Arrive at", destination>>

\* the stations the r-th route stops at
StationsOf(r) ==
  {railway[r].stops[i].stationName : i \in 1..Len(railway[r].stops)}

\* two routes of different names that share one station, the interchange,
\* and a call from a station of the first alone to one of the second alone
AcrossInterchange ==
  /\ Len(railway) = 2
  /\ railway[1].name # railway[2].name
  /\ Cardinality(StationsOf(1) \cap StationsOf(2)) = 1
  /\ origin \in StationsOf(1) \ StationsOf(2)
  /\ destination \in StationsOf(2) \ StationsOf(1)

\* C13: on a network of two routes that share exactly one interchange
\* station, every journey returned from a station of the first route alone
\* to a station of the second route alone has exactly one change, and its
\* narrative has the line "At <interchange> change to <second route>".
C13_OneChangeAtInterchange ==
  (Returned /\ AcrossInterchange) =>
    /\ result # <<>>
    /\ \A k \in 1..Len(result) :
         /\ heap[result[k]].changes = 1
         /\ \E x \in StationsOf(1) \cap StationsOf(2) :
              \E n \in 1..Len(heap[result[k]].text) :
                heap[result[k]].text[n]
                  = <<"At", x, "change to", railway[2].name>>

\* ------------------------------------------------------------ C14 .. C16
\* network() has returned the graph of the data file
Built == fileName = Str(DataFile)

\* <<r, i>>: the i-th and the (i + 1)-th stop of the r-th route are adjacent
AdjacentPairs ==
  {p \in (1..Len(railway)) \X (1..MaxStops) : p[2] < Len(railway[p[1]].stops)}

StopA(p) == railway[p[1]].stops[p[2]]
StopB(p) == railway[p[1]].stops[p[2] + 1]
LinkAB(p) ==
  Link(railway[p[1]].name, StopB(p).stationName, StopA(p).distanceToNext)
LinkBA(p) ==
  Link(railway[p[1]].name, StopA(p).stationName, StopB(p).distanceToPrev)

HasLink(x, link) ==
  \E k \in 1..Len(graph[x].links) : graph[x].links[k] = link

\* C14: for every route and every adjacent pair of stops (A, B) on it,
\* station A has a link to B with the route's name and A.distanceToNext and
\* station B has a link to A with the route's name and B.distanceToPrev;
\* every link of the graph is one of these.
C14_LinksOfAdjacentStops ==
  Built =>
    /\ \A p \in AdjacentPairs :
         /\ HasLink(StopA(p).stationName, LinkAB(p))
         /\ HasLink(StopB(p).stationName, LinkBA(p))
    /\ \A x \in DOMAIN graph : \A k \in 1..Len(graph[x].links) :
         \E p \in AdjacentPairs :
           \/ x = StopA(p).stationName /\ graph[x].links[k] = LinkAB(p)
           \/ x = StopB(p).stationName /\ graph[x].links[k] = LinkBA(p)

\* a graph of two routes in which some hop has different distances in its
\* two directions
C14_Witness ==
  /\ Built
  /\ Len(railway) = 2
  /\ \E p \in AdjacentPairs :
       /\ StopA(p).distanceToNext # StopB(p).distanceToPrev
       /\ HasLink(StopA(p).stationName, LinkAB(p))
       /\ HasLink(StopB(p).stationName, LinkBA(p))

\* the stop names of the data file
AllStopNames == UNION {StationsOf(r) : r \in 1..Len(railway)}

\* how many links the adjacent pairs give station x
LinksDue(x) ==
  Cardinality({p \in AdjacentPairs : StopA(p).stationName = x})
  + Cardinality({p \in AdjacentPairs : StopB(p).stationName = x})

C16_FileNameNotAString ==
  (fileName # NoArgument /\ typeof(fileName) # "string") =>
    pc = "threw" /\ error = "TypeError" /\ graph = EmptyGraph

C16_Witness ==
  fileName = EmptyObject /\ pc = "threw" /\ error = "TypeError"

\* ------------------------------------------------------------------- C17
\* C17: once network() has returned it, no step of getBestRoute or
\* doGetBestRoute changes the graph: the stations, their names and
\* identifiers and their links, in order, stay as they were, whether the
\* search finds journeys, finds none or throws.
C17_GraphUnchanged == [][pc # "start" => graph' = graph]_vars

\* a search round a cycle is over, with two journeys or more, and the
\* graph is the one network() built
C17_Witness ==
  /\ Returned
  /\ HasCycle
  /\ Len(result) >= 2
  /\ calls = MaxCalls
  /\ graph = network(railway)

\* ------------------------------------------------------------------- C18
MainCalled == mainArgs # NoArguments

\* maxResults is a number, or a string that spells one
Numeric(m) == ToNumber(m).t = "number"

ValidArguments ==
  /\ Numeric(mainArgs.maxResults)
  /\ typeof(mainArgs.origin) = "string"
  /\ typeof(mainArgs.destination) = "string"
  /\ mainArgs.data = Str(DataFile)

InvalidArguments ==
  \/ ~Numeric(mainArgs.maxResults)
  \/ typeof(mainArgs.origin) # "string"
  \/ typeof(mainArgs.destination) # "string"
  \/ typeof(mainArgs.data) # "string"

\* C18: main() called with a maxResults that is not numeric, or with an
\* origin, destination or data that is not a string, calls neither
\* network() nor getBestRoute(), prints the error and the usage message and
\* exits; called with valid arguments naming two stations of the network it
\* displays the routes and does not exit.
C18_MainValidates ==
  /\ (MainCalled /\ InvalidArguments) =>
       /\ fileName = NoArgument
       /\ calls = 0
       /\ pc \in {"threw", "exited"}
       /\ pc = "exited" =>
            exited /\ log = <<Line("TypeError", 0), Line(UsageMessage, 0)>>
  /\ (MainCalled /\ ValidArguments /\ Exists(mainArgs.origin.s)
        /\ Exists(mainArgs.destination.s)) =>
       /\ ~exited
       /\ pc \in {"built", "searching", "done", "displayed"}
       /\ pc = "displayed" =>
            \E n \in 1..Len(log) : log[n] = Line("Routes found", Len(result))

\* ------------------------------------------------------------ C19 .. C20
\* the forward distance of the r-th route, as a number
Forward(routes, r) == routeDistance(routes[r]).v

\* C19: findLongestRoute returns the route with the largest forward
\* distance, the earliest of them when several have it, and returns null
\* only when the network has no route or the argument is not a
\* RailwayNetwork.
C19_LongestRoute ==
  report.of = "findLongestRoute" =>
    IF report.data = "RailwayNetwork" /\ Len(railway) > 0
    THEN /\ report.res.t = "Route"
         /\ \A r \in 1..Len(railway) :
              Forward(railway, r) <= Forward(railway, report.res.at)
         /\ \A r \in 1..(report.res.at - 1) :
              Forward(railway, r) < Forward(railway, report.res.at)
    ELSE report.res = NullRoute

\* the routes of after are those of before, each once (names tell routes
\* apart)
Permutation(before, after) ==
  /\ Len(before) = Len(after)
  /\ \A r \in 1..Len(before) :
       \E q \in 1..Len(after) :
         after[q].name = before[r].name /\ after[q].stops = before[r].stops

\* C20: after sortRoutesByLength(data, true) the routes are the same routes
\* in order of non-decreasing distance; after a call with any other asc
\* they are in order of non-increasing distance.
C20_SortedByLength ==
  (report.of = "sortRoutesByLength" /\ report.data = "RailwayNetwork") =>
    /\ Permutation(report.before, railway)
    /\ \A a \in 1..Len(railway), b \in 1..Len(railway) :
         a < b =>
           IF report.asc = "true"
           THEN Forward(railway, a) <= Forward(railway, b)
           ELSE Forward(railway, a) >= Forward(railway, b)

\* ascending and descending sorts that had to move routes
C20_Witness ==
  /\ report.of = "sortRoutesByLength"
  /\ report.data = "RailwayNetwork"
  /\ Len(railway) = MaxRoutes
  /\ \E a \in 1..Len(railway) : railway[a].name # report.before[a].name
  /\ \E a \in 1..Len(railway), b \in 1..Len(railway) :
       Forward(railway, a) # Forward(railway, b)

\* ------------------------------------------------------------------- C21
\* the places of station name on the r-th route
PlacesOf(r, name) ==
  {i \in 1..Len(railway[r].stops) : railway[r].stops[i].stationName = name}

\* the sum of column over the stops at places lo .. hi of the r-th route
RECURSIVE SumOver(_, _, _, _)
SumOver(r, column, lo, hi) ==
  IF lo > hi THEN Num(0)
  ELSE Plus(SumOver(r, column, lo, hi - 1),
            IF column = "distanceToNext"
            THEN railway[r].stops[hi].distanceToNext
            ELSE railway[r].stops[hi].distanceToPrev)

\* report.res describes the trip from place a to place b of the r-th route
DescribesTrip(r, a, b) ==
  /\ report.res.name = railway[r].name
  /\ report.res.numStops = (IF a <= b THEN b - a ELSE a - b)
  /\ report.res.distance =
       (IF a <= b THEN SumOver(r, "distanceToNext", a, b - 1)
        ELSE SumOver(r, "distanceToPrev", b + 1, a))

\* C21: findRoute(data, from, to) on a network in which some route has
\* both stations names such a route, with as many stops as the places of
\* the two stations differ by and the sum of distanceToNext over the stops
\* from 'from' up to but not including 'to' going forward, or of
\* distanceToPrev over the stops from 'from' down to but not including
\* 'to' going backward; when no route has both stations it returns "No
\* direct route found between <from> and <to>".
C21_DirectRoute ==
  (report.of = "findRoute" /\ report.data = "RailwayNetwork") =>
    IF \E r \in 1..Len(railway) :
         PlacesOf(r, report.res.from) # {} /\ PlacesOf(r, report.res.to) # {}
    THEN /\ report.res.t = "stops and miles"
         /\ \E r \in 1..Len(railway) :
              \E a \in PlacesOf(r, report.res.from) :
                \E b \in PlacesOf(r, report.res.to) : DescribesTrip(r, a, b)
    ELSE report.res = NoDirectRoute(report.res.from, report.res.to)

\* a trip backward over two hops or more whose way back is not as long as
\* the way out
C21_Witness ==
  /\ report.of = "findRoute"
  /\ report.data = "RailwayNetwork"
  /\ report.res.t = "stops and miles"
  /\ report.res.numStops >= 2
  /\ \E r \in 1..Len(railway) :
       \E a \in PlacesOf(r, report.res.from) :
         \E b \in PlacesOf(r, report.res.to) :
           /\ a > b
           /\ DescribesTrip(r, a, b)
           /\ SumOver(r, "distanceToPrev", b + 1, a)
                # SumOver(r, "distanceToNext", b, a - 1)

\* ------------------------------------------------------------ C22 .. C29
\* the places along a path where the link is of another route than the
\* link before it
ChangesAlong(path) ==
  {k \in 2..Len(path) : path[k].link.routeName # path[k - 1].link.routeName}

\* C22: the changes of every returned journey are the number of places
\* along its path where two consecutive links are of different routes: the
\* first link counts no change, and neither does a link of the same route
\* as the link before it.
C22_ChangesCounted ==
  Returned =>
    \A k \in 1..Len(result) :
      heap[result[k]].changes = Cardinality(ChangesAlong(taken[result[k]]))

\* C23: while an activation is in the loop over the links of its station,
\* no step changes the journey it was called with, whatever is explored
\* below: the stations, distance, changes, narrative and success flag of
\* that journey stay as they were, so every link of the station is
\* explored from the same journey.
C23_SiblingsIsolated ==
  [][\A d \in 1..Len(stack) :
       (/\ pc' = "searching"
        /\ stack[d].at = "links"
        /\ d <= Len(stack')
        /\ stack'[d].journey = stack[d].journey)
         => heap'[stack[d].journey] = heap[stack[d].journey]]_vars

\* the journeys that extend journey j by one link
ExtensionsOf(j) ==
  {x \in 1..Len(heap) :
     /\ Len(taken[x]) = Len(taken[j]) + 1
     /\ SubSeq(taken[x], 1, Len(taken[j])) = taken[j]}

\* an activation below the top of the stack has had two of its links
\* explored and is exploring a third way
C23_Witness ==
  /\ Searching
  /\ \E d \in 1..(Len(stack) - 1) :
       /\ stack[d].at = "links"
       /\ Cardinality(ExtensionsOf(stack[d].journey)) >= 2
       /\ \E x \in ExtensionsOf(stack[d].journey) :
            heap[x].distance > heap[stack[d].journey].distance

\* what a link distance is worth: itself when a positive number, nothing
\* when zero, negative, null or NaN
Worth(distance) ==
  IF distance.t = "number" /\ distance.v > 0 THEN distance.v ELSE 0

RECURSIVE WorthOf(_)
WorthOf(path) ==
  IF path = <<>> THEN 0
  ELSE WorthOf(SubSeq(path, 1, Len(path) - 1))
       + Worth(path[Len(path)].link.distance)

\* C24: at every step of the search the distance of every journey is the
\* sum, over the links of its path, of the link distances that are
\* positive numbers (zero, negative, null and NaN add nothing): it is never
\* negative, and a journey is never shorter than the journey it extends.
C24_DistanceIsSumOfPositives ==
  \A j \in 1..Len(heap) :
    /\ heap[j].distance = WorthOf(taken[j])
    /\ heap[j].distance >= 0
    /\ \A x \in ExtensionsOf(j) : heap[x].distance >= heap[j].distance

\* a returned journey over a link of negative distance and a link of
\* positive distance
C24_Witness ==
  /\ Returned
  /\ \E k \in 1..Len(result) :
       /\ heap[result[k]].distance > 0
       /\ \E a \in 1..Len(taken[result[k]]) :
            /\ taken[result[k]][a].link.distance.t = "number"
            /\ taken[result[k]][a].link.distance.v < 0

\* the journeys of the search that end at the destination
Arrived ==
  {j \in 1..Len(heap) :
     /\ heap[j].stations # <<>>
     /\ heap[j].stations[Len(heap[j].stations)] = destinationStation}

\* C25: no journey of the search is extended over a link that leaves the
\* destination, so the destination occurs in a journey only as its last
\* station; and when the search is over every journey that ended at the
\* destination, whatever its path, is in the collection exactly once.
C25_ArrivalEndsBranch ==
  pc \in {"searching", "done"} =>
    /\ \A j \in 1..Len(heap) :
         /\ \A a \in 1..Len(taken[j]) : taken[j][a].from # destinationStation
         /\ \A k \in 1..(Len(heap[j].stations) - 1) :
              heap[j].stations[k] # destinationStation
    /\ Returned =>
         \A j \in Arrived :
           Cardinality({k \in 1..Len(possibleRoutes) :
                          possibleRoutes[k] = j}) = 1

\* two journeys arrived by different paths, and one of them could have gone
\* on from the destination to a station it had not visited
C25_Witness ==
  /\ Returned
  /\ Cardinality(Arrived) >= 2
  /\ \E j \in Arrived :
       \E a \in 1..Len(graph[destinationStation].links) :
         ~includes(heap[j].stations,
                   graph[destinationStation].links[a].station)

\* the journeys in routesFound while doGetBestRoute runs
Collected == {possibleRoutes[k] : k \in 1..Len(possibleRoutes)}

\* the journey whose base case is between its push and its return
InBaseCase(j) ==
  /\ stack # <<>>
  /\ Top.at \in {"success", "arrive"}
  /\ Top.journey = j

RECURSIVE ChangeLines(_, _)
ChangeLines(path, k) ==
  IF k > Len(path) THEN <<>>
  ELSE (IF path[k].link.routeName # path[k - 1].link.routeName
        THEN <<(<<"At", graph[path[k].from].stationName, "change to",
                  path[k].link.routeName>>)>>
        ELSE <<>>)
       \o ChangeLines(path, k + 1)

\* the narrative a path of at least one link calls for
NarrativeOf(path) ==
  <<(<<"Embark at", graph[path[1].from].stationName, "on",
       path[1].link.routeName>>)>>
  \o ChangeLines(path, 2)
  \o <<(<<"Arrive at", graph[destinationStation].stationName>>)>>

\* C27: the narrative of every returned journey of at least one link is one
\* "Embark at <origin> on <route of the first link>" line, then one "At
\* <station> change to <route>" line for each change along its path, in
\* path order and as many as its changes field counts, then one "Arrive at
\* <destination>" line, and nothing else.
C27_Narrative ==
  Returned =>
    \A k \in 1..Len(result) :
      taken[result[k]] # <<>> =>
        /\ heap[result[k]].text = NarrativeOf(taken[result[k]])
        /\ heap[result[k]].changes = Len(heap[result[k]].text) - 2

\* <<r, i>> of the first stop of the data file that names station x
FirstStopNaming(x) ==
  CHOOSE p \in (1..Len(railway)) \X (1..MaxStops) :
    /\ p[2] <= Len(railway[p[1]].stops)
    /\ railway[p[1]].stops[p[2]].stationName = x
    /\ \A q \in (1..Len(railway)) \X (1..MaxStops) :
         (/\ q[2] <= Len(railway[q[1]].stops)
          /\ railway[q[1]].stops[q[2]].stationName = x)
           => (q[1] > p[1] \/ (q[1] = p[1] /\ q[2] >= p[2]))

\* C28: every Station of the built graph carries the station identifier of
\* the first stop of the data file that names it, whatever later stops name
\* it too, and no two Stations of the graph carry the same identifier.
C28_StationIdentifiers ==
  Built =>
    /\ \A x \in DOMAIN graph :
         graph[x].stationID =
           railway[FirstStopNaming(x)[1]].stops[FirstStopNaming(x)[2]].stationId
    /\ \A x, y \in DOMAIN graph :
         graph[x].stationID = graph[y].stationID => x = y

\* the route of the link a journey took last
LastRoute(j) == taken[j][Len(taken[j])].link.routeName

\* C29: whenever the search extends a journey over a link, the new journey
\* gets the first-link treatment (the narrative is the Embark line, no
\* change is counted) exactly when the link leaves the origin station; over
\* a link from a later station it keeps the narrative written so far, and
\* counts a change and adds its line when the link is of another route than
\* the link before, whatever the routes are called.
C29_FirstLinkOnlyAtOrigin ==
  [][(Searching /\ Top.at = "links" /\ Len(heap') = Len(heap) + 1) =>
       LET old == heap[Top.journey]
           new == heap'[Len(heap')]
           link == graph[Top.origin].links[Top.i]
           here == graph[Top.origin].stationName
       IN IF Top.origin = origin
          THEN /\ new.text = <<(<<"Embark at", here, "on", link.routeName>>)>>
               /\ new.changes = 0
          ELSE IF link.routeName # LastRoute(Top.journey)
          THEN /\ new.text =
                    Append(old.text,
                           <<"At", here, "change to", link.routeName>>)
               /\ new.changes = old.changes + 1
          ELSE /\ new.text = old.text
               /\ new.changes = old.changes]_vars


====
